---- MODULE Spec2Model ----
(***************************************************************************)
(* Chunking subsystem of docling-rs: the structural (hierarchical) chunker, *)
(* the hybrid chunker with its split and merge passes, the builder, the    *)
(* contextualizer and the tokenizer interface.                             *)
(*                                                                         *)
(* A text is a sequence of one-character strings; all characters of the   *)
(* model are ASCII, so byte length (str::len) is Len.                      *)
(***************************************************************************)
EXTENDS Integers, Sequences, FiniteSets, TLC

VARIABLES
    builder,      \* HybridChunkerBuilder value in the caller's hands, or None
    asked,        \* ghost: the builder's setter calls so far, in call order
    buildResult,  \* "none" | "Ok" | "InvalidConfig": what build() returned
    chunker,      \* the constructed chunker (hierarchical or hybrid), or None
    doc,          \* the document borrowed by the live iterator, or None
    iter,         \* chunks still held by the iterator returned from chunk()
    emitted,      \* chunks the caller has pulled from the iterator so far
    visited,      \* ghost: number of document nodes the chunker has processed
    tokCalls,     \* ghost: number of count_tokens calls made so far
    passIn,       \* the Vec<BaseChunk> handed to one pass of the hybrid chunker
    passOut,      \* the Vec<BaseChunk> that pass returned
    runs,         \* ghost: the chunk sequences of the completed chunk(doc) calls
    context,      \* the String returned by the last contextualize call, or None
    threads,      \* the chunk(doc) calls in progress on threads that share the chunker
    wire,         \* the JSON value a chunk was serialized to, or None
    pc            \* "config" | "ready" | "iterating" | "done" | "error" | "pass" | "merged" | "split" |
                  \* "contextualized" | "threads" | "serialized" | "deserialized" | "panic"

vars == <<builder, asked, buildResult, chunker, doc, iter, emitted, visited, tokCalls,
          passIn, passOut, runs, context, threads, wire, pc>>

----------------------------------------------------------------------------
(* Bounds of the model *)

\* longest document, in nodes
MaxNodes == 2
\* largest token budget a tokenizer declares or a caller sets
MaxTokens == 2
\* longest sequence of builder setter calls before build()
MaxBuilderCalls == 3
\* longest chunk sequence handed to a single pass
MaxPassChunks == 3
\* most chunk(doc) calls made on one chunker for one document
MaxRuns == 2
\* width in bits of the machine word (usize) of the model
Width == 6

(* Program constants *)

\* MockTokenizer: "Approximate 4 chars per token"
CharsPerToken == 4

----------------------------------------------------------------------------
(* Option<T>: None is the empty sequence, Some(x) the one-element sequence *)

None == <<>>
Some(x) == <<x>>
Unwrap(o) == o[1]

----------------------------------------------------------------------------
(* Text primitives *)

\* char::is_whitespace, on the characters of the model
IsWhitespace(c) == c \in {" ", "\t", "\n"}

\* text.trim().is_empty()
TrimIsEmpty(t) == \A i \in 1..Len(t) : IsWhitespace(t[i])

\* str::len
ByteLen(t) == Len(t)

\* format!("{} {}", a, b)
JoinSpace(a, b) == a \o <<" ">> \o b

RECURSIVE SplitWords(_, _, _)
\* the loop of str::split_whitespace: cur is the word being read
SplitWords(t, cur, acc) ==
    IF t = <<>> THEN (IF cur = <<>> THEN acc ELSE Append(acc, cur))
    ELSE IF IsWhitespace(Head(t))
         THEN SplitWords(Tail(t), <<>>, IF cur = <<>> THEN acc ELSE Append(acc, cur))
         ELSE SplitWords(Tail(t), Append(cur, Head(t)), acc)

\* text.split_whitespace().collect()
SplitWhitespace(t) == SplitWords(t, <<>>, <<>>)

----------------------------------------------------------------------------
(* Tokenizer interface and the tokenizers of the model *)

\* a character the Hugging Face vocabulary cannot encode
Unencodable == "#"

\* tokenizers::Tokenizer::encode returns Err
EncodeFails(t) == \E i \in 1..Len(t) : t[i] = Unencodable

\* MockTokenizer::count_tokens: text.len().div_ceil(chars_per_token)
MockCountTokens(t) == (ByteLen(t) + CharsPerToken - 1) \div CharsPerToken

\* HuggingFaceTokenizer::count_tokens: encode(..).map(|e| e.get_ids().len()).unwrap_or(0),
\* with a whitespace pre-tokenizer and one id per word
HfCountTokens(t) == IF EncodeFails(t) THEN 0 ELSE Len(SplitWhitespace(t))

\* Tokenizer::count_tokens, dispatched on the implementation behind the Box
CountTokens(tok, t) ==
    IF tok.kind = "mock" THEN MockCountTokens(t) ELSE HfCountTokens(t)

\* Tokenizer::max_tokens
TokMaxTokens(tok) == tok.max_tokens

Tokenizers == [kind : {"mock", "hf"}, max_tokens : {0, MaxTokens}]

----------------------------------------------------------------------------
(* Documents *)

Txt_ab == <<"a", "b">>
Txt_two == <<"a", "b", "c", "d", " ", "e", "f", "g", "h">>
Txt_blank == <<" ", "\t">>
Txt_padded == <<" ", "a", "b", " ", "\n", "c", "d", " ">>
Txt_bigfirst == <<"a", "b", "c", "d", "e", " ", "f">>
Txt_hash == <<"#">>

\* SourcePosition (only the offsets are read by the chunkers)
Pos(s, e) == [start_offset |-> s, end_offset |-> e]

\* DocumentNode: NodeType, text_content and position
Node(ty, t, p) == [node_type |-> ty, text_content |-> t, position |-> p]

NodePool ==
    { Node("Heading", Some(Txt_ab), None), Node("Paragraph", Some(Txt_two), None),
      Node("Text", Some(Txt_blank), None), Node("Table", None, Some(Pos(7, 9))),
      Node("ListItem", Some(Txt_padded), None),
      Node("Paragraph", Some(Txt_bigfirst), None), Node("ListItem", Some(Txt_hash), None),
      Node("Paragraph", Some(Txt_ab), Some(Pos(0, 2))),
      Node("Paragraph", Some(Txt_ab), Some(Pos(3, 5))) }

DocName == "doc.md"
OtherDocName == "notes.md"

\* DoclingDocument: the documents of one name up to MaxNodes nodes, and the
\* shorter documents of a second name
Docs == { [name |-> DocName, nodes |-> ns] :
            ns \in UNION { [1..n -> NodePool] : n \in 0..MaxNodes } }
          \cup { [name |-> OtherDocName, nodes |-> ns] :
                    ns \in UNION { [1..n -> NodePool] : n \in 0..(MaxNodes - 1) } }

----------------------------------------------------------------------------
(* Contextualizer *)

RECURSIVE HeadingLines(_)
\* for heading in headings { push_str(heading); push('\n') }
HeadingLines(hs) ==
    IF hs = <<>> THEN <<>> ELSE Head(hs) \o <<"\n">> \o HeadingLines(Tail(hs))

\* mutant of Contextualize: the caption is pushed without its newline
ContextualizeCaptionNoNewline(chunk) ==
    HeadingLines(chunk.meta.headings)
      \o (IF chunk.meta.caption # None THEN Unwrap(chunk.meta.caption) ELSE <<>>)
      \o chunk.text

\* HierarchicalChunker::contextualize
Contextualize(chunk) ==
    HeadingLines(chunk.meta.headings)
      \o (IF chunk.meta.caption # None THEN Unwrap(chunk.meta.caption) \o <<"\n">> ELSE <<>>)
      \o chunk.text

\* HybridChunker::contextualize delegates to the hierarchical chunker
HybridContextualize(chunk) == Contextualize(chunk)

----------------------------------------------------------------------------
(* Structural chunker *)

\* BaseChunk { text, meta: ChunkMetadata { .. } }
Chunk(t, name, hs, cap, s, e, i) ==
    [text |-> t,
     meta |-> [doc_name |-> name, headings |-> hs, caption |-> cap,
               start_offset |-> s, end_offset |-> e, index |-> i]]

\* mutant of NodeOffsets: no separator is counted after a node without position
NodeOffsetsNoSeparator(node, current_offset) ==
    IF node.position # None
    THEN [start |-> Unwrap(node.position).start_offset,
          end |-> Unwrap(node.position).end_offset,
          cursor |-> Unwrap(node.position).end_offset]
    ELSE [start |-> current_offset,
          end |-> current_offset + ByteLen(Unwrap(node.text_content)),
          cursor |-> current_offset + ByteLen(Unwrap(node.text_content))]

\* the (start_offset, end_offset, current_offset') computed for one node
NodeOffsets(node, current_offset) ==
    IF node.position # None
    THEN [start |-> Unwrap(node.position).start_offset,
          end |-> Unwrap(node.position).end_offset,
          cursor |-> Unwrap(node.position).end_offset]
    ELSE [start |-> current_offset,
          end |-> current_offset + ByteLen(Unwrap(node.text_content)),
          cursor |-> current_offset + ByteLen(Unwrap(node.text_content)) + 1]

\* mutant of NodeHasChunk: the text is tested with is_empty() without trim()
NodeHasChunkNoTrim(node) ==
    node.text_content # None /\ Unwrap(node.text_content) # <<>>

\* mutant of NodeHasChunk: only the presence of text_content is tested
NodeHasChunkTextPresent(node) == node.text_content # None

\* the filter of the filter_map closure: node.text_content()? and the trim test
NodeHasChunk(node) ==
    node.text_content # None /\ ~TrimIsEmpty(Unwrap(node.text_content))

\* mutant of NodeChunk: a Heading node's chunk lists its own text as heading
NodeChunkOwnHeading(node, name, o, chunk_index) ==
    Chunk(Unwrap(node.text_content), name,
          IF node.node_type = "Heading" THEN <<Unwrap(node.text_content)>> ELSE <<>>,
          None, o.start, o.end, chunk_index)

\* the BaseChunk built for one node: `headings: vec![]` and `caption: None`
NodeChunk(node, name, o, chunk_index) ==
    Chunk(Unwrap(node.text_content), name, <<>>, None, o.start, o.end, chunk_index)

RECURSIVE HierarchicalLoop(_, _, _, _)
\* the filter_map closure run over the nodes, with its two captured counters
HierarchicalLoop(name, nodes, current_offset, chunk_index) ==
    IF nodes = <<>> THEN <<>>
    ELSE LET node == Head(nodes) IN
         IF ~NodeHasChunk(node)
         THEN HierarchicalLoop(name, Tail(nodes), current_offset, chunk_index)
         ELSE LET o == NodeOffsets(node, current_offset) IN
              <<NodeChunk(node, name, o, chunk_index)>>
                \o HierarchicalLoop(name, Tail(nodes), o.cursor, chunk_index + 1)

\* HierarchicalChunker::chunk (the collected Vec behind the returned iterator)
HierarchicalChunk(d) == HierarchicalLoop(d.name, d.nodes, 0, 0)

----------------------------------------------------------------------------
(* Chunkers *)

\* HierarchicalChunker { merge_list_items }
HierarchicalChunker(merge) ==
    [kind |-> "hierarchical", tokenizer |-> None, max_tokens |-> 0,
     merge_peers |-> FALSE, merge_list_items |-> merge]

\* HybridChunker { tokenizer, max_tokens, merge_peers, hierarchical: HierarchicalChunker::new() }
HybridChunker(tok, max, merge) ==
    [kind |-> "hybrid", tokenizer |-> Some(tok), max_tokens |-> max,
     merge_peers |-> merge, merge_list_items |-> TRUE]

\* self.tokenizer.count_tokens(&self.contextualize(chunk))
ChunkTokens(ck, chunk) == CountTokens(Unwrap(ck.tokenizer), HybridContextualize(chunk))

----------------------------------------------------------------------------
(* Hybrid chunker, Pass B: split_oversized_chunk *)

\* `token_count <= self.max_tokens`: the chunk is returned as it is
FitsBudget(ck, token_count) == token_count <= ck.max_tokens

\* mutant of SplitMustFlush: the buffer is flushed one token too late
SplitMustFlushLate(ck, test_tokens, current_text) ==
    test_tokens > ck.max_tokens + 1 /\ current_text # <<>>

\* mutant of SplitMustFlush: the buffer is flushed before every further word
SplitMustFlushAlways(ck, test_tokens, current_text) == current_text # <<>>

\* `test_tokens > self.max_tokens && !current_text.is_empty()`
SplitMustFlush(ck, test_tokens, current_text) ==
    test_tokens > ck.max_tokens /\ current_text # <<>>

\* mutant of SubChunk: the separator is counted into the piece's end_offset
SubChunkEndPastSeparator(chunk, current_text, current_start, chunk_index) ==
    Chunk(current_text, chunk.meta.doc_name, chunk.meta.headings, chunk.meta.caption,
          current_start, current_start + ByteLen(current_text) + 1, chunk_index)

\* mutant of SubChunk: the piece is built with an empty doc_name
SubChunkNoName(chunk, current_text, current_start, chunk_index) ==
    Chunk(current_text, "", chunk.meta.headings, chunk.meta.caption,
          current_start, current_start + ByteLen(current_text), chunk_index)

\* the BaseChunk pushed for the buffered words
SubChunk(chunk, current_text, current_start, chunk_index) ==
    Chunk(current_text, chunk.meta.doc_name, chunk.meta.headings, chunk.meta.caption,
          current_start, current_start + ByteLen(current_text), chunk_index)

RECURSIVE SplitLoop(_, _, _, _, _, _, _)
\* `for word in words { .. }` and the push of the remaining text after it
SplitLoop(ck, chunk, words, result, current_text, current_start, chunk_index) ==
    IF words = <<>>
    THEN IF current_text # <<>>
         THEN Append(result, SubChunk(chunk, current_text, current_start, chunk_index))
         ELSE result
    ELSE LET word == Head(words)
             test_text == IF current_text = <<>> THEN word ELSE JoinSpace(current_text, word)
             test_tokens == ChunkTokens(ck, [text |-> test_text, meta |-> chunk.meta])
         IN  IF SplitMustFlush(ck, test_tokens, current_text)
             THEN SplitLoop(ck, chunk, Tail(words),
                            Append(result,
                                   SubChunk(chunk, current_text, current_start, chunk_index)),
                            word,
                            current_start + ByteLen(current_text) + 1,
                            chunk_index + 1)
             ELSE SplitLoop(ck, chunk, Tail(words), result, test_text,
                            current_start, chunk_index)

\* HybridChunker::split_oversized_chunk
SplitOversizedChunk(ck, chunk) ==
    IF FitsBudget(ck, ChunkTokens(ck, chunk)) THEN <<chunk>>
    ELSE LET words == SplitWhitespace(chunk.text) IN
         IF words = <<>> THEN <<chunk>>
         ELSE SplitLoop(ck, chunk, words, <<>>, <<>>,
                        chunk.meta.start_offset, chunk.meta.index)

\* count_tokens calls made by split_oversized_chunk: one for the chunk, one per word
SplitTokenCalls(ck, chunk) ==
    IF FitsBudget(ck, ChunkTokens(ck, chunk)) THEN 1
    ELSE 1 + Len(SplitWhitespace(chunk.text))

RECURSIVE SplitAll(_, _)
\* Pass 2 of HybridChunker::chunk: split every chunk and append the pieces
SplitAll(ck, chunks) ==
    IF chunks = <<>> THEN <<>>
    ELSE SplitOversizedChunk(ck, Head(chunks)) \o SplitAll(ck, Tail(chunks))

RECURSIVE SplitAllTokenCalls(_, _)
SplitAllTokenCalls(ck, chunks) ==
    IF chunks = <<>> THEN 0
    ELSE SplitTokenCalls(ck, Head(chunks)) + SplitAllTokenCalls(ck, Tail(chunks))

----------------------------------------------------------------------------
(* Hybrid chunker, Pass C: merge_undersized_peers *)

\* mutant of CanMerge: the heading paths are not compared
CanMergeCaptionOnly(prev, chunk) == prev.meta.caption = chunk.meta.caption

\* `prev.meta.headings == chunk.meta.headings && prev.meta.caption == chunk.meta.caption`
CanMerge(prev, chunk) ==
    prev.meta.headings = chunk.meta.headings /\ prev.meta.caption = chunk.meta.caption

\* mutant of MergeFits: a trial merge that exactly fills the budget is rejected
MergeFitsStrict(ck, token_count) == token_count < ck.max_tokens

\* `token_count <= self.max_tokens`: the trial merge is kept
MergeFits(ck, token_count) == token_count <= ck.max_tokens

\* mutant of Merged: prev.meta.end_offset is not moved to the end of chunk
MergedKeepsEnd(prev, chunk) ==
    [text |-> JoinSpace(prev.text, chunk.text), meta |-> prev.meta]

\* mutant of Merged: prev.text is not replaced by the merged text
MergedKeepsPrevText(prev, chunk) ==
    [text |-> prev.text,
     meta |-> [prev.meta EXCEPT !.end_offset = chunk.meta.end_offset]]

\* prev after `prev.text = merged_text; prev.meta.end_offset = chunk.meta.end_offset`
Merged(prev, chunk) ==
    [text |-> JoinSpace(prev.text, chunk.text),
     meta |-> [prev.meta EXCEPT !.end_offset = chunk.meta.end_offset]]

RECURSIVE MergeLoop(_, _, _, _, _)
\* `for chunk in chunks { match current.take() { .. } }` and the push of the last chunk;
\* calls counts the count_tokens calls
MergeLoop(ck, chunks, result, current, calls) ==
    IF chunks = <<>>
    THEN [result |-> IF current # None THEN Append(result, Unwrap(current)) ELSE result,
          calls |-> calls]
    ELSE LET chunk == Head(chunks) IN
         IF current = None
         THEN MergeLoop(ck, Tail(chunks), result, Some(chunk), calls)
         ELSE LET prev == Unwrap(current) IN
              IF CanMerge(prev, chunk)
              THEN LET test_chunk == [text |-> JoinSpace(prev.text, chunk.text),
                                      meta |-> prev.meta]
                   IN  IF MergeFits(ck, ChunkTokens(ck, test_chunk))
                       THEN MergeLoop(ck, Tail(chunks), result,
                                      Some(Merged(prev, chunk)), calls + 1)
                       ELSE MergeLoop(ck, Tail(chunks), Append(result, prev),
                                      Some(chunk), calls + 1)
              ELSE MergeLoop(ck, Tail(chunks), Append(result, prev), Some(chunk), calls)

\* `for (i, chunk) in result.iter_mut().enumerate() { chunk.meta.index = i }`
ReIndex(result) ==
    [i \in 1..Len(result) |-> [result[i] EXCEPT !.meta.index = i - 1]]

\* mutant of MergeSkipped: merge_peers is not consulted
MergeSkippedOnlyEmpty(ck, chunks) == chunks = <<>>

\* the early return `!self.merge_peers || chunks.is_empty()`
MergeSkipped(ck, chunks) == ~ck.merge_peers \/ chunks = <<>>

\* HybridChunker::merge_undersized_peers
MergeUndersizedPeers(ck, chunks) ==
    IF MergeSkipped(ck, chunks) THEN chunks
    ELSE ReIndex(MergeLoop(ck, chunks, <<>>, None, 0).result)

\* count_tokens calls made by merge_undersized_peers
MergeTokenCalls(ck, chunks) ==
    IF MergeSkipped(ck, chunks) THEN 0
    ELSE MergeLoop(ck, chunks, <<>>, None, 0).calls

\* HybridChunker::chunk (the Vec behind the returned iterator)
HybridChunk(ck, d) == MergeUndersizedPeers(ck, SplitAll(ck, HierarchicalChunk(d)))

\* count_tokens calls made inside HybridChunker::chunk
HybridTokenCalls(ck, d) ==
    SplitAllTokenCalls(ck, HierarchicalChunk(d))
      + MergeTokenCalls(ck, SplitAll(ck, HierarchicalChunk(d)))

\* mutant of ChunkerChunk: with merge_list_items set, the structural chunker
\* coalesces two leading ListItem nodes into one node, their texts joined by a newline
ChunkerChunkMergingLists(ck, d) ==
    IF ck.kind = "hybrid" THEN HybridChunk(ck, d)
    ELSE LET ns == d.nodes
             both == /\ Len(ns) >= 2
                     /\ \A k \in 1..2 : ns[k].node_type = "ListItem" /\ NodeHasChunk(ns[k])
             joined == Node("ListItem",
                            Some(Unwrap(ns[1].text_content) \o <<"\n">>
                                   \o Unwrap(ns[2].text_content)),
                            None)
         IN  IF ck.merge_list_items /\ both
             THEN HierarchicalChunk([d EXCEPT !.nodes = <<joined>> \o SubSeq(ns, 3, Len(ns))])
             ELSE HierarchicalChunk(d)

\* BaseChunker::chunk(&self, doc), dispatched on the chunker; the structural
\* implementation never reads self.merge_list_items
ChunkerChunk(ck, d) ==
    IF ck.kind = "hybrid" THEN HybridChunk(ck, d) ELSE HierarchicalChunk(d)

----------------------------------------------------------------------------
(* Offsets are usize: `+` panics on overflow in a build with overflow       *)
(* checks and wraps around in a build without them.                         *)

\* usize::MAX
UsizeMax == 2^Width - 1

RECURSIVE HierarchicalOverflows(_, _)
\* some `current_offset + text.len()` or `end + 1` of the structural chunker
\* exceeds usize::MAX
HierarchicalOverflows(nodes, current_offset) ==
    IF nodes = <<>> THEN FALSE
    ELSE IF ~NodeHasChunk(Head(nodes))
         THEN HierarchicalOverflows(Tail(nodes), current_offset)
         ELSE LET o == NodeOffsets(Head(nodes), current_offset) IN
              \/ o.end > UsizeMax
              \/ o.cursor > UsizeMax
              \/ HierarchicalOverflows(Tail(nodes), o.cursor)

\* some `current_start + current_text.len()` or `end_offset + 1` of
\* split_oversized_chunk on this chunk exceeds usize::MAX
SplitOverflows(ck, chunk) ==
    IF FitsBudget(ck, ChunkTokens(ck, chunk)) \/ SplitWhitespace(chunk.text) = <<>>
    THEN FALSE
    ELSE LET pieces == SplitOversizedChunk(ck, chunk) IN
         \E j \in 1..Len(pieces) :
            \/ pieces[j].meta.end_offset > UsizeMax
            \/ j < Len(pieces) /\ pieces[j].meta.end_offset + 1 > UsizeMax

\* BaseChunker::chunk(&self, doc) overflows a usize
ChunkOverflows(ck, d) ==
    \/ HierarchicalOverflows(d.nodes, 0)
    \/ /\ ck.kind = "hybrid"
       /\ \E k \in 1..Len(HierarchicalChunk(d)) : SplitOverflows(ck, HierarchicalChunk(d)[k])

\* the offsets as a build without overflow checks holds them: modulo 2^Width
WrapOffsets(chunks) ==
    [i \in 1..Len(chunks) |->
        [chunks[i] EXCEPT !.meta.start_offset = @ % (UsizeMax + 1),
                          !.meta.end_offset = @ % (UsizeMax + 1)]]

----------------------------------------------------------------------------
(* Builder *)

\* HybridChunkerBuilder::new
NewBuilder == [tokenizer |-> None, max_tokens |-> None, merge_peers |-> TRUE]

\* `self.max_tokens.unwrap_or_else(|| tokenizer.max_tokens())`
BuildMaxTokens(b) ==
    IF b.max_tokens # None THEN Unwrap(b.max_tokens) ELSE TokMaxTokens(Unwrap(b.tokenizer))

\* mutant of BuildFails: the max_tokens == 0 check is missing
BuildFailsTokenizerOnly(b) == b.tokenizer = None

\* the two Err(InvalidConfig) returns of build()
BuildFails(b) == b.tokenizer = None \/ BuildMaxTokens(b) = 0

\* the Ok(HybridChunker { .. }) of build()
BuildChunker(b) == HybridChunker(Unwrap(b.tokenizer), BuildMaxTokens(b), b.merge_peers)

----------------------------------------------------------------------------
(* Initial state and operations *)

Init ==
    /\ builder = None
    /\ asked = <<>>
    /\ buildResult = "none"
    /\ chunker = None
    /\ doc = None
    /\ iter = <<>>
    /\ emitted = <<>>
    /\ visited = 0
    /\ tokCalls = 0
    /\ passIn = <<>>
    /\ passOut = <<>>
    /\ runs = <<>>
    /\ context = None
    /\ threads = <<>>
    /\ wire = None
    /\ pc = "config"

\* HierarchicalChunker::new
HierarchicalNew ==
    /\ pc = "config" /\ builder = None
    /\ chunker' = Some(HierarchicalChunker(TRUE))
    /\ pc' = "ready"
    /\ UNCHANGED <<builder, asked, buildResult, doc, iter, emitted, visited, tokCalls, passIn, passOut, runs, context, threads, wire>>

\* HierarchicalChunker::with_merge_list_items
HierarchicalWithMergeListItems(merge) ==
    /\ pc = "config" /\ builder = None
    /\ chunker' = Some(HierarchicalChunker(merge))
    /\ pc' = "ready"
    /\ UNCHANGED <<builder, asked, buildResult, doc, iter, emitted, visited, tokCalls, passIn, passOut, runs, context, threads, wire>>

\* HybridChunker::new
HybridNew(tok) ==
    /\ pc = "config" /\ builder = None
    /\ chunker' = Some(HybridChunker(tok, TokMaxTokens(tok), TRUE))
    /\ pc' = "ready"
    /\ UNCHANGED <<builder, asked, buildResult, doc, iter, emitted, visited, tokCalls, passIn, passOut, runs, context, threads, wire>>

\* HybridChunker::builder
HybridBuilder ==
    /\ pc = "config" /\ builder = None
    /\ builder' = Some(NewBuilder)
    /\ UNCHANGED <<asked, buildResult, chunker, doc, iter, emitted, visited, tokCalls, passIn, passOut, pc, runs, context, threads, wire>>

\* HybridChunkerBuilder::tokenizer
BuilderTokenizer(tok) ==
    /\ pc = "config" /\ builder # None /\ Len(asked) < MaxBuilderCalls
    /\ builder' = Some([Unwrap(builder) EXCEPT !.tokenizer = Some(tok)])
    /\ asked' = Append(asked, <<"tokenizer", tok>>)
    /\ UNCHANGED <<buildResult, chunker, doc, iter, emitted, visited, tokCalls, passIn, passOut, pc, runs, context, threads, wire>>

\* HybridChunkerBuilder::max_tokens
BuilderMaxTokens(max) ==
    /\ pc = "config" /\ builder # None /\ Len(asked) < MaxBuilderCalls
    /\ builder' = Some([Unwrap(builder) EXCEPT !.max_tokens = Some(max)])
    /\ asked' = Append(asked, <<"max_tokens", max>>)
    /\ UNCHANGED <<buildResult, chunker, doc, iter, emitted, visited, tokCalls, passIn, passOut, pc, runs, context, threads, wire>>

\* HybridChunkerBuilder::merge_peers
BuilderMergePeers(merge) ==
    /\ pc = "config" /\ builder # None /\ Len(asked) < MaxBuilderCalls
    /\ builder' = Some([Unwrap(builder) EXCEPT !.merge_peers = merge])
    /\ asked' = Append(asked, <<"merge_peers", merge>>)
    /\ UNCHANGED <<buildResult, chunker, doc, iter, emitted, visited, tokCalls, passIn, passOut, pc, runs, context, threads, wire>>

\* HybridChunkerBuilder::build (consumes the builder)
BuilderBuild ==
    /\ pc = "config" /\ builder # None
    /\ IF BuildFails(Unwrap(builder))
       THEN /\ buildResult' = "InvalidConfig"
            /\ chunker' = None
            /\ pc' = "error"
       ELSE /\ buildResult' = "Ok"
            /\ chunker' = Some(BuildChunker(Unwrap(builder)))
            /\ pc' = "ready"
    /\ builder' = None
    /\ asked' = <<>>
    /\ UNCHANGED <<doc, iter, emitted, visited, tokCalls, passIn, passOut, runs, context, threads, wire>>

\* BaseChunker::chunk on the constructed chunker: both implementations collect
\* every chunk into a Vec before they return the iterator over it. When an
\* offset addition overflows, the call panics (overflow checks on) or goes on
\* with the wrapped value (overflow checks off)
ChunkCall(d) ==
    /\ pc = "ready" /\ chunker # None
    /\ LET ck == Unwrap(chunker) IN
       /\ \/ /\ ChunkOverflows(ck, d)
             /\ iter' = <<>>
             /\ pc' = "panic"
          \/ /\ iter' = WrapOffsets(ChunkerChunk(ck, d))
             /\ pc' = "iterating"
       /\ tokCalls' = IF ck.kind = "hybrid" THEN HybridTokenCalls(ck, d) ELSE 0
    /\ visited' = Len(d.nodes)
    /\ doc' = Some(d)
    /\ emitted' = <<>>
    /\ UNCHANGED <<builder, asked, buildResult, chunker, passIn, passOut, runs, context, threads, wire>>

\* mutant of IterNext: an exhausted iterator does not report None
IterNextNeverDone ==
    /\ pc = "iterating"
    /\ IF iter = <<>>
       THEN UNCHANGED <<iter, emitted, pc, runs>>
       ELSE /\ emitted' = Append(emitted, Head(iter))
            /\ iter' = Tail(iter)
            /\ pc' = pc
            /\ runs' = runs
    /\ UNCHANGED <<builder, asked, buildResult, chunker, doc, visited, tokCalls,
                   passIn, passOut, context, threads, wire>>

\* Iterator::next on the returned vec::IntoIter
IterNext ==
    /\ pc = "iterating"
    /\ IF iter = <<>>
       THEN /\ pc' = "done"
            /\ runs' = Append(runs, emitted)
            /\ UNCHANGED <<iter, emitted>>
       ELSE /\ emitted' = Append(emitted, Head(iter))
            /\ iter' = Tail(iter)
            /\ pc' = pc
            /\ runs' = runs
    /\ UNCHANGED <<builder, asked, buildResult, chunker, doc, visited, tokCalls,
                   passIn, passOut, context, threads, wire>>

\* mutant of ChunkAgain: the chunk_index counter lives in the chunker and is
\* carried over from the call before
ChunkAgainCarryIndex ==
    /\ pc = "done" /\ Len(runs) < MaxRuns
    /\ LET ck == Unwrap(chunker)
           d == Unwrap(doc)
           out == ChunkerChunk(ck, d)
       IN
       /\ iter' = [i \in 1..Len(out) |->
                     [out[i] EXCEPT !.meta.index = @ + Len(emitted)]]
       /\ tokCalls' = IF ck.kind = "hybrid" THEN HybridTokenCalls(ck, d) ELSE 0
       /\ visited' = Len(d.nodes)
    /\ emitted' = <<>>
    /\ pc' = "iterating"
    /\ UNCHANGED <<builder, asked, buildResult, chunker, doc, passIn, passOut, runs, context, threads, wire>>

\* BaseChunker::chunk called once more, on the same chunker and the same
\* document, after the iterator of the call before was exhausted
ChunkAgain ==
    /\ pc = "done" /\ Len(runs) < MaxRuns
    /\ LET ck == Unwrap(chunker)
           d == Unwrap(doc)
       IN
       /\ iter' = WrapOffsets(ChunkerChunk(ck, d))
       /\ tokCalls' = IF ck.kind = "hybrid" THEN HybridTokenCalls(ck, d) ELSE 0
       /\ visited' = Len(d.nodes)
    /\ emitted' = <<>>
    /\ pc' = "iterating"
    /\ UNCHANGED <<builder, asked, buildResult, chunker, doc, passIn, passOut, runs, context, threads, wire>>

Next ==
    \/ HierarchicalNew
    \/ \E merge \in BOOLEAN : HierarchicalWithMergeListItems(merge)
    \/ \E tok \in Tokenizers : HybridNew(tok)
    \/ HybridBuilder
    \/ \E tok \in Tokenizers : BuilderTokenizer(tok)
    \/ \E max \in 0..MaxTokens : BuilderMaxTokens(max)
    \/ \E merge \in BOOLEAN : BuilderMergePeers(merge)
    \/ BuilderBuild
    \/ \E d \in Docs : ChunkCall(d)
    \/ IterNext
    \/ ChunkAgain

Spec == Init /\ [][Next]_vars

\* the caller drives the returned iterator (a for loop or collect), so next() is
\* called again as long as it has not returned None
FairSpec == Spec /\ WF_vars(IterNext)

----------------------------------------------------------------------------
(* One pass of the hybrid chunker run on its own, on any chunk sequence the *)
(* pass can be handed: chunks with heading paths and captions, offsets and *)
(* indices as the structural chunker synthesizes them.                      *)

Heading_1 == <<"H">>
Heading_2 == <<"J">>
Caption_1 == <<"c">>

\* what distinguishes one chunk of a pass input from another
PassChunkKinds ==
    [text : {Txt_ab}, headings : {<<>>, <<Heading_1>>, <<Heading_2>>},
     caption : {None, Some(Caption_1)}]
      \cup { [text |-> Txt_hash, headings |-> <<>>, caption |-> None] }

RECURSIVE PassChunks(_, _, _)
PassChunks(kinds, current_offset, chunk_index) ==
    IF kinds = <<>> THEN <<>>
    ELSE LET k == Head(kinds) IN
         <<Chunk(k.text, DocName, k.headings, k.caption, current_offset,
                 current_offset + ByteLen(k.text), chunk_index)>>
           \o PassChunks(Tail(kinds), current_offset + ByteLen(k.text) + 1, chunk_index + 1)

PassInputs ==
    { PassChunks(ks, 0, 0) :
        ks \in UNION { [1..n -> PassChunkKinds] : n \in 0..MaxPassChunks } }

PassInit ==
    /\ builder = None
    /\ asked = <<>>
    /\ buildResult = "none"
    /\ chunker \in { Some(HybridChunker(tok, max, merge)) :
                        tok \in Tokenizers, max \in 1..MaxTokens, merge \in BOOLEAN }
    /\ doc = None
    /\ iter = <<>>
    /\ emitted = <<>>
    /\ visited = 0
    /\ tokCalls = 0
    /\ passIn \in PassInputs
    /\ passOut = <<>>
    /\ runs = <<>>
    /\ context = None
    /\ threads = <<>>
    /\ wire = None
    /\ pc = "pass"

\* HybridChunker::merge_undersized_peers applied to passIn
PassMerge ==
    /\ pc = "pass"
    /\ passOut' = MergeUndersizedPeers(Unwrap(chunker), passIn)
    /\ tokCalls' = MergeTokenCalls(Unwrap(chunker), passIn)
    /\ pc' = "merged"
    /\ UNCHANGED <<builder, asked, buildResult, chunker, doc, iter, emitted, visited, passIn, runs, context, threads, wire>>

PassNext == PassMerge

PassSpec == PassInit /\ [][PassNext]_vars

----------------------------------------------------------------------------
(* split_oversized_chunk run on its own, on one chunk as the structural    *)
(* chunker can hand it over: offsets synthesized from the cursor or copied *)
(* from a source position whose span is not the text's length.             *)

Txt_word == <<"a", "b", "c", "d", "e">>
Txt_padword == <<" ", "a", "b", "c", "d", "e">>

Txt_three == <<"a", "b", " ", "c", "d", " ", "e", "f">>
Txt_tabbed == <<"a", "\t", "b", " ", "c", "d", "e">>

SplitTexts ==
    {Txt_word, Txt_padword, Txt_two, Txt_bigfirst, Txt_padded, Txt_ab, Txt_hash,
     Txt_three, Txt_tabbed}

\* the chunks handed to split_oversized_chunk
SplitInputs ==
    { Chunk(t, DocName, hs, None, s, s + ByteLen(t), i) :
        t \in SplitTexts, hs \in {<<>>, <<Heading_1>>}, s \in {0, 3}, i \in {0, 1} }
      \cup { Chunk(t, DocName, hs, None, 0, 9, i) :
                t \in SplitTexts, hs \in {<<>>, <<Heading_1>>}, i \in {0, 1} }

SplitInit ==
    /\ builder = None
    /\ asked = <<>>
    /\ buildResult = "none"
    /\ chunker \in { Some(HybridChunker(tok, max, merge)) :
                        tok \in Tokenizers, max \in 1..MaxTokens, merge \in BOOLEAN }
    /\ doc = None
    /\ iter = <<>>
    /\ emitted = <<>>
    /\ visited = 0
    /\ tokCalls = 0
    /\ passIn \in { <<c>> : c \in SplitInputs }
    /\ passOut = <<>>
    /\ runs = <<>>
    /\ context = None
    /\ threads = <<>>
    /\ wire = None
    /\ pc = "pass"

\* HybridChunker::split_oversized_chunk applied to the chunk in passIn
PassSplit ==
    /\ pc = "pass"
    /\ passOut' = SplitOversizedChunk(Unwrap(chunker), passIn[1])
    /\ tokCalls' = SplitTokenCalls(Unwrap(chunker), passIn[1])
    /\ pc' = "split"
    /\ UNCHANGED <<builder, asked, buildResult, chunker, doc, iter, emitted, visited, passIn, runs, context, threads, wire>>

SplitNext == PassSplit

SplitSpec == SplitInit /\ [][SplitNext]_vars

----------------------------------------------------------------------------
(* contextualize run on its own, by either chunker, on any chunk a caller   *)
(* can hand it: heading paths of several entries, empty strings included.   *)

ContextHeadings ==
    { <<>>, <<Heading_1>>, <<Heading_2>>, <<Heading_1, Heading_2>>,
      <<Heading_2, Heading_1>>, <<Heading_1, Heading_1>>, <<<<>>, Heading_1>> }

ContextCaptions == {None, Some(Caption_1), Some(<<>>)}

\* the chunks handed to contextualize
ContextInputs ==
    { Chunk(t, DocName, hs, cap, 0, ByteLen(t), 0) :
        t \in {Txt_ab, Txt_padded, Txt_hash}, hs \in ContextHeadings,
        cap \in ContextCaptions }

ContextInit ==
    /\ builder = None
    /\ asked = <<>>
    /\ buildResult = "none"
    /\ chunker \in { Some(HierarchicalChunker(TRUE)) }
                      \cup { Some(HybridChunker(tok, MaxTokens, TRUE)) : tok \in Tokenizers }
    /\ doc = None
    /\ iter = <<>>
    /\ emitted = <<>>
    /\ visited = 0
    /\ tokCalls = 0
    /\ passIn \in { <<c>> : c \in ContextInputs }
    /\ passOut = <<>>
    /\ runs = <<>>
    /\ context = None
    /\ threads = <<>>
    /\ wire = None
    /\ pc = "pass"

\* BaseChunker::contextualize applied to the chunk in passIn, a first time or again
PassContextualize ==
    /\ pc \in {"pass", "contextualized"}
    /\ context' = Some(IF Unwrap(chunker).kind = "hybrid"
                       THEN HybridContextualize(passIn[1])
                       ELSE Contextualize(passIn[1]))
    /\ pc' = "contextualized"
    /\ UNCHANGED <<builder, asked, buildResult, chunker, doc, iter, emitted, visited,
                   tokCalls, passIn, passOut, runs, threads, wire>>

ContextNext == PassContextualize

ContextSpec == ContextInit /\ [][ContextNext]_vars

----------------------------------------------------------------------------
(* Several chunk(doc) calls running on threads that share one chunker by    *)
(* reference (`&self`; Tokenizer is Send + Sync and count_tokens takes      *)
(* `&self`). A thread visits its document node by node with the counters    *)
(* of its own call, then runs the hybrid passes on its own Vec.             *)

Threads == {1, 2}

ThreadPool ==
    { Node("Paragraph", Some(Txt_two), None), Node("ListItem", Some(Txt_hash), None),
      Node("Paragraph", Some(Txt_ab), Some(Pos(3, 5))) }

ThreadDocs == { [name |-> DocName, nodes |-> ns] :
                  ns \in UNION { [1..n -> ThreadPool] : n \in 0..MaxNodes } }

\* the state of one call at its start: `current_offset = 0`, `chunk_index = 0`
ThreadStart(d) ==
    [doc |-> d, visited |-> 0, current_offset |-> 0, chunk_index |-> 0,
     chunks |-> <<>>, out |-> None]

\* mutant of ThreadCursor: the cursor is one counter shared by all calls
ThreadCursorShared(t) == threads[1].current_offset

\* the `current_offset` captured by the closure of thread t's call
ThreadCursor(t) == threads[t].current_offset

ConcInit ==
    /\ builder = None
    /\ asked = <<>>
    /\ buildResult = "none"
    /\ chunker \in { Some(HierarchicalChunker(TRUE)) }
                      \cup { Some(HybridChunker(tok, max, TRUE)) :
                                tok \in {k \in Tokenizers : k.max_tokens = MaxTokens},
                                max \in 1..MaxTokens }
    /\ doc = None
    /\ iter = <<>>
    /\ emitted = <<>>
    /\ visited = 0
    /\ tokCalls = 0
    /\ passIn = <<>>
    /\ passOut = <<>>
    /\ runs = <<>>
    /\ context = None
    /\ threads \in [Threads -> { ThreadStart(d) : d \in ThreadDocs }]
    /\ wire = None
    /\ pc = "threads"

\* one run of the filter_map closure in thread t: the next node of its document
ThreadNode(t) ==
    /\ pc = "threads"
    /\ threads[t].visited < Len(threads[t].doc.nodes)
    /\ LET th == threads[t]
           node == th.doc.nodes[th.visited + 1]
       IN  IF ~NodeHasChunk(node)
           THEN threads' = [threads EXCEPT ![t].visited = @ + 1]
           ELSE LET o == NodeOffsets(node, ThreadCursor(t)) IN
                threads' = [threads EXCEPT
                              ![t].visited = @ + 1,
                              ![t].chunks = Append(@, NodeChunk(node, th.doc.name, o,
                                                                th.chunk_index)),
                              ![t].current_offset = o.cursor,
                              ![t].chunk_index = @ + 1]
    /\ UNCHANGED <<builder, asked, buildResult, chunker, doc, iter, emitted, visited,
                   tokCalls, passIn, passOut, runs, context, pc, wire>>

\* thread t has visited every node: the structural chunker returns the Vec, the
\* hybrid chunker runs split_oversized_chunk and merge_undersized_peers on it
ThreadPasses(t) ==
    /\ pc = "threads"
    /\ threads[t].visited = Len(threads[t].doc.nodes)
    /\ threads[t].out = None
    /\ LET ck == Unwrap(chunker) IN
       threads' = [threads EXCEPT ![t].out =
                      Some(IF ck.kind = "hybrid"
                           THEN MergeUndersizedPeers(ck, SplitAll(ck, threads[t].chunks))
                           ELSE threads[t].chunks)]
    /\ UNCHANGED <<builder, asked, buildResult, chunker, doc, iter, emitted, visited,
                   tokCalls, passIn, passOut, runs, context, pc, wire>>

ConcNext ==
    \/ \E t \in Threads : ThreadNode(t)
    \/ \E t \in Threads : ThreadPasses(t)

ConcSpec == ConcInit /\ [][ConcNext]_vars

----------------------------------------------------------------------------
(* The derived Serialize / Deserialize of BaseChunk and ChunkMetadata with  *)
(* serde_json: a struct is a JSON object with one member per field in       *)
(* declaration order, a String a JSON string with its escapes, a usize a    *)
(* decimal number, a Vec an array and Option::None the literal null.        *)

Txt_quoted == <<"\"", "a", "\\", "n">>

Digits == <<"0", "1", "2", "3", "4", "5", "6", "7", "8", "9">>

RECURSIVE ToDecimal(_)
\* the decimal digits written for a usize
ToDecimal(n) ==
    IF n < 10 THEN <<Digits[n + 1]>> ELSE ToDecimal(n \div 10) \o <<Digits[(n % 10) + 1]>>

\* the value of one decimal digit
DigitValue(c) == CHOOSE v \in 0..9 : Digits[v + 1] = c

RECURSIVE FromDecimal(_, _)
\* the usize parsed from decimal digits; acc is the value read so far
FromDecimal(ds, acc) ==
    IF ds = <<>> THEN acc ELSE FromDecimal(Tail(ds), acc * 10 + DigitValue(Head(ds)))

\* mutant of EscapeChar: every character is written as it is
EscapeCharRaw(c) == <<c>>

\* the characters written for one character of a String
EscapeChar(c) ==
    IF c = "\"" THEN <<"\\", "\"">>
    ELSE IF c = "\\" THEN <<"\\", "\\">>
    ELSE IF c = "\n" THEN <<"\\", "n">>
    ELSE IF c = "\t" THEN <<"\\", "t">>
    ELSE <<c>>

RECURSIVE EscapeString(_)
\* the body of the JSON string written for a String
EscapeString(t) ==
    IF t = <<>> THEN <<>> ELSE EscapeChar(Head(t)) \o EscapeString(Tail(t))

RECURSIVE UnescapeString(_)
\* the String read back from the body of a JSON string
UnescapeString(e) ==
    IF e = <<>> THEN <<>>
    ELSE IF Head(e) = "\\" /\ Len(e) >= 2
         THEN <<IF e[2] = "n" THEN "\n" ELSE IF e[2] = "t" THEN "\t" ELSE e[2]>>
                \o UnescapeString(SubSeq(e, 3, Len(e)))
         ELSE <<Head(e)>> \o UnescapeString(Tail(e))

JsonString(t) == [kind |-> "string", body |-> EscapeString(t)]
JsonNumber(n) == [kind |-> "number", body |-> ToDecimal(n)]
JsonNull == [kind |-> "null", body |-> <<>>]
JsonArray(items) == [kind |-> "array", body |-> items]
JsonObject(members) == [kind |-> "object", body |-> members]
Member(key, value) == [key |-> key, value |-> value]

\* #[derive(Serialize)] on ChunkMetadata (a document name is one symbol of the
\* model and is written as a one-symbol string)
SerializeMeta(meta) ==
    JsonObject(<<
        Member("doc_name", [kind |-> "string", body |-> <<meta.doc_name>>]),
        Member("headings",
               JsonArray([k \in 1..Len(meta.headings) |-> JsonString(meta.headings[k])])),
        Member("caption",
               IF meta.caption = None THEN JsonNull ELSE JsonString(Unwrap(meta.caption))),
        Member("start_offset", JsonNumber(meta.start_offset)),
        Member("end_offset", JsonNumber(meta.end_offset)),
        Member("index", JsonNumber(meta.index)) >>)

\* #[derive(Serialize)] on BaseChunk
SerializeChunk(chunk) ==
    JsonObject(<< Member("text", JsonString(chunk.text)),
                  Member("meta", SerializeMeta(chunk.meta)) >>)

\* the value of the member of an object that a struct field is read from
Field(object, key) ==
    LET k == CHOOSE k \in 1..Len(object.body) : object.body[k].key = key
    IN  object.body[k].value

\* #[derive(Deserialize)] on ChunkMetadata
DeserializeMeta(object) ==
    [doc_name |-> Field(object, "doc_name").body[1],
     headings |-> [k \in 1..Len(Field(object, "headings").body) |->
                     UnescapeString(Field(object, "headings").body[k].body)],
     caption |-> IF Field(object, "caption").kind = "null" THEN None
                 ELSE Some(UnescapeString(Field(object, "caption").body)),
     start_offset |-> FromDecimal(Field(object, "start_offset").body, 0),
     end_offset |-> FromDecimal(Field(object, "end_offset").body, 0),
     index |-> FromDecimal(Field(object, "index").body, 0)]

\* #[derive(Deserialize)] on BaseChunk
DeserializeChunk(object) ==
    [text |-> UnescapeString(Field(object, "text").body),
     meta |-> DeserializeMeta(Field(object, "meta"))]

\* the chunks handed to serde_json::to_string
SerdeInputs ==
    { Chunk(t, DocName, hs, cap, o[1], o[2], i) :
        t \in {Txt_padded, Txt_quoted, Txt_hash}, hs \in ContextHeadings,
        cap \in ContextCaptions \cup {Some(Txt_quoted)},
        o \in {<<0, 8>>, <<9, 120>>}, i \in {0, 10} }

SerdeInit ==
    /\ builder = None
    /\ asked = <<>>
    /\ buildResult = "none"
    /\ chunker = None
    /\ doc = None
    /\ iter = <<>>
    /\ emitted = <<>>
    /\ visited = 0
    /\ tokCalls = 0
    /\ passIn \in { <<c>> : c \in SerdeInputs }
    /\ passOut = <<>>
    /\ runs = <<>>
    /\ context = None
    /\ threads = <<>>
    /\ wire = None
    /\ pc = "pass"

\* serde_json::to_string on the chunk in passIn
PassSerialize ==
    /\ pc = "pass"
    /\ wire' = Some(SerializeChunk(passIn[1]))
    /\ pc' = "serialized"
    /\ UNCHANGED <<builder, asked, buildResult, chunker, doc, iter, emitted, visited,
                   tokCalls, passIn, passOut, runs, context, threads>>

\* serde_json::from_str on the encoding in wire
PassDeserialize ==
    /\ pc = "serialized"
    /\ passOut' = <<DeserializeChunk(Unwrap(wire))>>
    /\ pc' = "deserialized"
    /\ UNCHANGED <<builder, asked, buildResult, chunker, doc, iter, emitted, visited,
                   tokCalls, passIn, runs, context, threads, wire>>

SerdeNext == PassSerialize \/ PassDeserialize

SerdeSpec == SerdeInit /\ [][SerdeNext]_vars

----------------------------------------------------------------------------
(* Documents whose offsets lie at the top of the usize range *)

\* nodes positioned at the end of the usize range, and unpositioned nodes to
\* follow them
WidePool ==
    { Node("Paragraph", Some(Txt_ab), Some(Pos(UsizeMax - 2, UsizeMax))),
      Node("Paragraph", Some(Txt_ab), Some(Pos(UsizeMax - 4, UsizeMax - 2))),
      Node("Paragraph", Some(Txt_two), Some(Pos(UsizeMax - 9, UsizeMax))),
      Node("Paragraph", Some(Txt_two), Some(Pos(UsizeMax - 1, UsizeMax))),
      Node("Paragraph", Some(Txt_ab), None),
      Node("Paragraph", Some(Txt_two), None) }

WideDocs ==
    { [name |-> DocName, nodes |-> ns] :
        ns \in UNION { [1..n -> WidePool] : n \in 0..MaxNodes } }

\* a chunker constructed by new(): the state chunk(doc) is called in
WideInit ==
    /\ builder = None
    /\ asked = <<>>
    /\ buildResult = "none"
    /\ chunker \in { Some(HierarchicalChunker(TRUE)) }
                     \cup { Some(HybridChunker(tok, TokMaxTokens(tok), TRUE)) :
                                tok \in Tokenizers }
    /\ doc = None
    /\ iter = <<>>
    /\ emitted = <<>>
    /\ visited = 0
    /\ tokCalls = 0
    /\ passIn = <<>>
    /\ passOut = <<>>
    /\ runs = <<>>
    /\ context = None
    /\ threads = <<>>
    /\ wire = None
    /\ pc = "ready"

WideNext ==
    \/ \E d \in WideDocs : ChunkCall(d)
    \/ IterNext
    \/ ChunkAgain

WideSpec == WideInit /\ [][WideNext]_vars

----------------------------------------------------------------------------
(* Properties *)

IsHybrid == chunker # None /\ Unwrap(chunker).kind = "hybrid"
IsStructural == chunker # None /\ Unwrap(chunker).kind = "hierarchical"

\* a text that is one word: not empty and without any whitespace
IsSingleWord(t) == t # <<>> /\ \A j \in 1..Len(t) : t[j] \notin {" ", "\t", "\n"}

\* the budget test of the contract: count_tokens(contextualize(c)) <= max_tokens
WithinBudget(c) ==
    CountTokens(Unwrap(Unwrap(chunker).tokenizer), Contextualize(c))
        <= Unwrap(chunker).max_tokens

\* the structural chunker, or a hybrid chunker with max_tokens > 0
ValidConfig == IsStructural \/ (IsHybrid /\ Unwrap(chunker).max_tokens > 0)

\* C1: the i-th emitted chunk has meta.index = i (0-based), for either chunker and
\* every valid configuration.
C1_DenseIndices ==
    ValidConfig => \A i \in 1..Len(emitted) : emitted[i].meta.index = i - 1

\* C2: every chunk the hybrid chunker emits under a valid configuration is within
\* the token budget unless its text is a single word.
C2_BudgetCompliance ==
    (IsHybrid /\ Unwrap(chunker).max_tokens > 0) =>
        \A i \in 1..Len(emitted) :
            WithinBudget(emitted[i]) \/ IsSingleWord(emitted[i].text)

\* C2 witness: the hybrid chunker has emitted a single word that exceeds the budget
\* and a multi-word chunk that is no node's text (it was packed by a pass).
C2_Witness ==
    /\ IsHybrid /\ Unwrap(chunker).max_tokens > 0
    /\ \E i \in 1..Len(emitted) : ~WithinBudget(emitted[i])
    /\ \E i \in 1..Len(emitted) :
          /\ ~IsSingleWord(emitted[i].text)
          /\ \A n \in 1..Len(Unwrap(doc).nodes) :
                Unwrap(doc).nodes[n].text_content # Some(emitted[i].text)

\* C3: consecutive chunks of the hybrid output do not overlap.
C3_HybridNoOverlap ==
    (IsHybrid /\ ValidConfig) =>
        \A i \in 1..(Len(emitted) - 1) :
            emitted[i].meta.end_offset <= emitted[i + 1].meta.start_offset

\* C4: consecutive chunks of the structural output do not overlap.
C4_StructuralNoOverlap ==
    IsStructural =>
        \A i \in 1..(Len(emitted) - 1) :
            emitted[i].meta.end_offset <= emitted[i + 1].meta.start_offset

\* C5: every emitted chunk has start_offset <= end_offset.
C5_StartLeEnd ==
    ValidConfig =>
        \A i \in 1..Len(emitted) :
            emitted[i].meta.start_offset <= emitted[i].meta.end_offset

\* C6: when chunk(doc) has returned and no chunk has been requested yet, no node
\* has been visited and the tokenizer has not been called.
C6_LazyEmission ==
    (pc = "iterating" /\ emitted = <<>>) => (visited = 0 /\ tokCalls = 0)

\* the trial merge of two adjacent output chunks: text a + " " + b, metadata of a
TrialMerge(a, b) == [text |-> a.text \o <<" ">> \o b.text, meta |-> a.meta]

SamePeers(a, b) ==
    a.meta.headings = b.meta.headings /\ a.meta.caption = b.meta.caption

\* C7: with merge_peers = true, every adjacent pair of the hybrid output with the
\* same headings and caption has a trial merge that exceeds the budget.
C7_MergeLocality ==
    (IsHybrid /\ Unwrap(chunker).merge_peers /\ Unwrap(chunker).max_tokens > 0) =>
        \A i \in 1..(Len(emitted) - 1) :
            SamePeers(emitted[i], emitted[i + 1]) =>
                ~WithinBudget(TrialMerge(emitted[i], emitted[i + 1]))

\* the tokenizer's count does not drop while b's text is appended to a's
AppendMonotone(a, b) ==
    \A k \in 1..Len(b.text) :
        CountTokens(Unwrap(Unwrap(chunker).tokenizer),
                    Contextualize(TrialMerge(a, [b EXCEPT !.text = SubSeq(b.text, 1, k)])))
          <= CountTokens(Unwrap(Unwrap(chunker).tokenizer), Contextualize(TrialMerge(a, b)))

\* C7 as amended: the same, for pairs on which the tokenizer's count does not
\* decrease as text is appended.
C7_MergeLocalityMonotone ==
    (IsHybrid /\ Unwrap(chunker).merge_peers /\ Unwrap(chunker).max_tokens > 0) =>
        \A i \in 1..(Len(emitted) - 1) :
            (SamePeers(emitted[i], emitted[i + 1])
               /\ AppendMonotone(emitted[i], emitted[i + 1])) =>
                ~WithinBudget(TrialMerge(emitted[i], emitted[i + 1]))

\* C7 witness: two adjacent peers that each fit the budget were emitted unmerged,
\* the second of them joined from several words by the passes.
C7_Witness ==
    /\ IsHybrid /\ Unwrap(chunker).merge_peers /\ Unwrap(chunker).max_tokens > 0
    /\ \E i \in 1..(Len(emitted) - 1) :
          /\ SamePeers(emitted[i], emitted[i + 1])
          /\ AppendMonotone(emitted[i], emitted[i + 1])
          /\ WithinBudget(emitted[i]) /\ WithinBudget(emitted[i + 1])
          /\ ~IsSingleWord(emitted[i + 1].text)
          /\ \A n \in 1..Len(Unwrap(doc).nodes) :
                Unwrap(doc).nodes[n].text_content # Some(emitted[i + 1].text)

RECURSIVE JoinTexts(_)
\* the texts of a run of chunks, joined by single spaces
JoinTexts(cs) ==
    IF Len(cs) = 1 THEN cs[1].text ELSE cs[1].text \o <<" ">> \o JoinTexts(Tail(cs))

RECURSIVE PeerGrouped(_, _)
\* out is in, cut into runs of adjacent chunks with one heading path and one
\* caption, each run joined into one chunk
PeerGrouped(out, in) ==
    IF out = <<>> THEN in = <<>>
    ELSE \E k \in 1..Len(in) :
            /\ \A j \in 1..k : /\ in[j].meta.headings = in[1].meta.headings
                               /\ in[j].meta.caption = in[1].meta.caption
            /\ out[1].text = JoinTexts(SubSeq(in, 1, k))
            /\ out[1].meta.headings = in[1].meta.headings
            /\ out[1].meta.caption = in[1].meta.caption
            /\ PeerGrouped(Tail(out), SubSeq(in, k + 1, Len(in)))

HasVisibleText(node) ==
    /\ node.text_content # <<>>
    /\ \E j \in 1..Len(node.text_content[1]) :
          node.text_content[1][j] \notin {" ", "\t", "\n"}

\* C9: the structural chunker's chunks are, in order, the texts of the nodes whose
\* text is present and not whitespace-only; no nodes, no chunks.
C9_OneChunkPerNode ==
    (IsStructural /\ pc \in {"iterating", "done"}) =>
        LET nodes == SelectSeq(Unwrap(doc).nodes, HasVisibleText)
            chunks == emitted \o iter
        IN  /\ Len(chunks) = Len(nodes)
            /\ \A k \in 1..Len(chunks) : chunks[k].text = nodes[k].text_content[1]
            /\ (pc = "done" => iter = <<>>)

\* C9 witness: a two-node document with one blank or text-less node has been
\* chunked to the end by the structural chunker and gave one chunk.
C9_Witness ==
    /\ IsStructural /\ pc = "done"
    /\ Len(Unwrap(doc).nodes) = 2 /\ Len(emitted) = 1
    /\ \E n \in 1..2 : Unwrap(doc).nodes[n].text_content = Some(Txt_blank)

RECURSIVE LastAsked(_, _)
\* the argument of the last call of setter `name` in the call log, if any
LastAsked(log, name) ==
    IF log = <<>> THEN <<>>
    ELSE IF log[Len(log)][1] = name THEN <<log[Len(log)][2]>>
         ELSE LastAsked(SubSeq(log, 1, Len(log) - 1), name)

\* C10: build() returns InvalidConfig exactly when no tokenizer was set or the
\* effective max_tokens (the explicit value, else tokenizer.max_tokens()) is 0;
\* otherwise it returns a chunker with that budget and the last merge_peers set
\* (true if never set).
C10_BuildContract ==
    [][ (builder # <<>> /\ builder' = <<>>) =>
          LET tok == LastAsked(asked, "tokenizer")
              max == LastAsked(asked, "max_tokens")
              merge == LastAsked(asked, "merge_peers")
              effective == IF max # <<>> THEN max[1] ELSE tok[1].max_tokens
              invalid == IF tok = <<>> THEN TRUE ELSE effective = 0
          IN  /\ (buildResult' = "InvalidConfig") <=> invalid
              /\ invalid => chunker' = <<>>
              /\ ~invalid =>
                    /\ buildResult' = "Ok"
                    /\ chunker' # <<>>
                    /\ chunker'[1].kind = "hybrid"
                    /\ chunker'[1].tokenizer = tok
                    /\ chunker'[1].max_tokens = effective
                    /\ chunker'[1].merge_peers = (IF merge = <<>> THEN TRUE ELSE merge[1])
      ]_vars

\* C10 witness: build() has returned a chunker whose budget differs from the
\* tokenizer's own and whose merge_peers is false.
C10_Witness ==
    /\ buildResult = "Ok" /\ IsHybrid
    /\ Unwrap(chunker).max_tokens # Unwrap(Unwrap(chunker).tokenizer).max_tokens
    /\ ~Unwrap(chunker).merge_peers

\* C11: every hybrid chunker obtained through a public constructor
\* (HybridChunker::new or a successful build()) has max_tokens > 0.
C11_PositiveBudget == IsHybrid => Unwrap(chunker).max_tokens > 0

\* C12: a source chunk whose contextualized token count exceeds max_tokens and
\* whose text is exactly one whitespace-delimited word (with or without
\* surrounding whitespace, with or without a source position) is returned by
\* Pass B as one chunk identical to it in text, offsets, index and metadata.
C12_IrreducibleUnchanged ==
    (/\ pc = "split"
     /\ ~FitsBudget(Unwrap(chunker), ChunkTokens(Unwrap(chunker), passIn[1]))
     /\ Len(SplitWhitespace(passIn[1].text)) = 1)
        => passOut = <<passIn[1]>>

\* C13: an emitted chunk that exceeds the budget is marked as such in what the
\* caller holds after the run (the chunks with their metadata and the chunker's
\* max_tokens and merge_peers), so the caller can tell it from a compliant chunk
\* without running the tokenizer: two runs on one document that differ only in
\* the tokenizer behind the Box and hand the caller identical chunks agree on
\* which of these chunks are over budget.
C13_IrreducibleDetectable ==
    (pc = "done" /\ IsHybrid /\ ValidConfig) =>
        \A tok \in Tokenizers :
            LET other == [Unwrap(chunker) EXCEPT !.tokenizer = Some(tok)] IN
            HybridChunk(other, Unwrap(doc)) = emitted =>
                \A i \in 1..Len(emitted) :
                    WithinBudget(emitted[i])
                        <=> FitsBudget(other, ChunkTokens(other, emitted[i]))

RECURSIVE TotalWords(_)
\* the number of whitespace-delimited words in the nodes of a node sequence
TotalWords(nodes) ==
    IF nodes = <<>> THEN 0
    ELSE (IF Head(nodes).text_content = <<>> THEN 0
          ELSE Len(SplitWhitespace(Head(nodes).text_content[1])))
           + TotalWords(Tail(nodes))

\* C14: for every document and every constructed hybrid chunker (a zero budget
\* included), a caller that keeps advancing the iterator reaches its end; the
\* iterator only ever yields chunks or its end, never an error, and it yields at
\* most one chunk per word of the document.
C14_IterationTerminates ==
    /\ (pc = "iterating" /\ IsHybrid) ~> (pc = "done")
    /\ [][(pc = "iterating" /\ IsHybrid) => pc' \in {"iterating", "done"}]_vars
    /\ []((pc \in {"iterating", "done"} /\ IsHybrid) =>
            Len(emitted) + Len(iter) <= TotalWords(doc[1].nodes))

\* C14 witness: the iterator of a hybrid chunker with a zero budget, where no
\* candidate ever fits, is exhausted after it yielded the words of a node one by
\* one.
C14_Witness ==
    /\ pc = "done" /\ IsHybrid /\ Unwrap(chunker).max_tokens = 0
    /\ Len(emitted) >= 2
    /\ \A i \in 1..Len(emitted) : IsSingleWord(emitted[i].text) /\ ~WithinBudget(emitted[i])

C16_NoBlankChunk ==
    \A i \in 1..Len(emitted) :
        \E j \in 1..Len(emitted[i].text) : emitted[i].text[j] \notin {" ", "\t", "\n"}

\* C16 witness: a hybrid chunker has yielded every chunk of a document that
\* holds a whitespace-only node and a node padded with whitespace, the padded
\* node cut into two chunks or more.
C16_Witness ==
    /\ pc = "done" /\ IsHybrid /\ Len(emitted) >= 2
    /\ \E k \in 1..Len(Unwrap(doc).nodes) :
          Unwrap(doc).nodes[k].text_content = Some(Txt_blank)
    /\ \E k \in 1..Len(Unwrap(doc).nodes) :
          Unwrap(doc).nodes[k].text_content = Some(Txt_padded)

\* C17: every chunk yielded by either chunker carries in meta.doc_name the name
\* of the document that was chunked.
C17_DocName ==
    \A i \in 1..Len(emitted) : emitted[i].meta.doc_name = doc[1].name

\* C17 witness: a hybrid chunker has yielded two chunks or more, cut from one
\* node, of a document whose name is not that of the other documents.
C17_Witness ==
    /\ pc = "done" /\ IsHybrid /\ Len(emitted) >= 2
    /\ Unwrap(doc).name = OtherDocName
    /\ Len(Unwrap(doc).nodes) = 1

\* the lines contextualize puts before the text: the headings, then the caption
ContextLines(c) ==
    c.meta.headings \o (IF c.meta.caption = <<>> THEN <<>> ELSE <<c.meta.caption[1]>>)

RECURSIVE LineStart(_, _)
\* the number of characters before line k when every line ends with a newline
LineStart(lines, k) ==
    IF k = 1 THEN 0 ELSE LineStart(lines, k - 1) + Len(lines[k - 1]) + 1

\* C18: contextualize(c), by either chunker, is each heading of c in order
\* followed by a newline, then the caption followed by a newline if c has one,
\* then c.text (c.text alone when c has neither); the hybrid chunker returns what
\* the structural chunker returns, and no count_tokens call is made.
C18_ContextualizeShape ==
    context # <<>> =>
        LET c == passIn[1]
            out == context[1]
            lines == ContextLines(c)
            n == Len(lines)
        IN  /\ Len(out) = LineStart(lines, n + 1) + Len(c.text)
            /\ \A k \in 1..n :
                  /\ SubSeq(out, LineStart(lines, k) + 1,
                            LineStart(lines, k) + Len(lines[k])) = lines[k]
                  /\ out[LineStart(lines, k) + Len(lines[k]) + 1] = "\n"
            /\ SubSeq(out, LineStart(lines, n + 1) + 1, Len(out)) = c.text
            /\ tokCalls = 0

\* C18 witness: the hybrid chunker has contextualized a chunk with two different
\* headings and a caption.
C18_Witness ==
    /\ pc = "contextualized" /\ IsHybrid
    /\ passIn[1].meta.headings = <<Heading_2, Heading_1>>
    /\ passIn[1].meta.caption = Some(Caption_1)
    /\ context # None

C21_ThreadsIndependent ==
    /\ [](\A t \in DOMAIN threads :
            threads[t].out # <<>> =>
                threads[t].out[1] = ChunkerChunk(chunker[1], threads[t].doc))
    /\ [][pc = "threads" => chunker' = chunker]_vars

\* C21 witness: two calls on a shared hybrid chunker, on different documents,
\* have both returned two chunks or more.
C21_Witness ==
    /\ pc = "threads" /\ IsHybrid
    /\ threads[1].doc # threads[2].doc
    /\ \A t \in Threads : threads[t].out # None /\ Len(Unwrap(threads[t].out)) >= 2

\* the keys of a JSON object
Keys(object) == { object.body[k].key : k \in 1..Len(object.body) }

C23_CursorOffsets ==
    (IsStructural /\ pc \in {"iterating", "done"}) =>
        LET nodes == SelectSeq(doc[1].nodes, HasVisibleText)
            chunks == emitted \o iter
        IN  /\ Len(chunks) = Len(nodes)
            /\ \A k \in 1..Len(chunks) :
                  LET m == chunks[k].meta IN
                  IF nodes[k].position # <<>>
                  THEN /\ m.start_offset = nodes[k].position[1].start_offset
                       /\ m.end_offset = nodes[k].position[1].end_offset
                  ELSE /\ m.start_offset =
                            (IF k = 1 THEN 0
                             ELSE IF nodes[k - 1].position # <<>>
                                  THEN chunks[k - 1].meta.end_offset
                                  ELSE chunks[k - 1].meta.end_offset + 1)
                       /\ m.end_offset = m.start_offset + Len(nodes[k].text_content[1])
            /\ chunks = ChunkerChunk(chunker[1], [doc[1] EXCEPT !.nodes = nodes])

\* C23 witness: the structural chunker has yielded the chunk of a positioned
\* node and, starting at that chunk's end, the chunk of a node without position.
C23_Witness ==
    /\ pc = "done" /\ IsStructural /\ Len(emitted) = 2
    /\ Unwrap(doc).nodes[1].position # None
    /\ Unwrap(doc).nodes[2].position = None
    /\ emitted[2].meta.start_offset = emitted[1].meta.end_offset
    /\ emitted[2].meta.start_offset > 0

\* a document in which no node carries a position
NoPositions(d) == \A k \in 1..Len(d.nodes) : d.nodes[k].position = <<>>

\* C24: for a document without positions and any hybrid chunker, the pieces
\* Pass B cuts from a source chunk c lie inside [c.start_offset, c.end_offset],
\* each starts one byte after the end of the piece before it, and in the
\* hybrid output every chunk has start_offset <= end_offset and ends no later
\* than the next chunk starts.
C24_SplitOffsetsNested ==
    (IsHybrid /\ pc \in {"iterating", "done"} /\ NoPositions(doc[1])) =>
        LET source == HierarchicalChunk(doc[1])
            out == emitted \o iter
        IN  /\ \A k \in 1..Len(source) :
                  LET c == source[k]
                      pieces == SplitOversizedChunk(chunker[1], c)
                  IN  /\ \A j \in 1..Len(pieces) :
                            /\ c.meta.start_offset <= pieces[j].meta.start_offset
                            /\ pieces[j].meta.start_offset <= pieces[j].meta.end_offset
                            /\ pieces[j].meta.end_offset <= c.meta.end_offset
                      /\ \A j \in 1..(Len(pieces) - 1) :
                            pieces[j + 1].meta.start_offset = pieces[j].meta.end_offset + 1
            /\ \A i \in 1..Len(out) : out[i].meta.start_offset <= out[i].meta.end_offset
            /\ \A i \in 1..(Len(out) - 1) :
                  out[i].meta.end_offset <= out[i + 1].meta.start_offset

\* C24 witness: a hybrid chunker has yielded three chunks or more from a
\* two-node document without positions, more than the document has nodes.
C24_Witness ==
    /\ pc = "done" /\ IsHybrid /\ NoPositions(Unwrap(doc))
    /\ Len(Unwrap(doc).nodes) = 2 /\ Len(emitted) >= 3

RECURSIVE WordsOf(_)
\* the whitespace-separated words of the texts of a chunk sequence, in order
WordsOf(chunks) ==
    IF chunks = <<>> THEN <<>>
    ELSE SplitWhitespace(Head(chunks).text) \o WordsOf(Tail(chunks))

\* C25: the words read from the hybrid output's chunk texts in emission order
\* are the words read from the structural chunker's output for the same
\* document: the split and merge passes lose, repeat and reorder no word.
C25_WordsConserved ==
    (IsHybrid /\ pc \in {"iterating", "done"}) =>
        WordsOf(emitted \o iter) = WordsOf(HierarchicalChunk(doc[1]))

\* C25 witness: from a two-node document a hybrid chunker has yielded two
\* chunks or more, one of them cut from a node and one of them a merge that
\* holds words of both nodes.
C25_Witness ==
    /\ pc = "done" /\ IsHybrid /\ Len(emitted) >= 2
    /\ Len(HierarchicalChunk(Unwrap(doc))) = 2
    /\ \E i \in 1..Len(emitted) :
          /\ emitted[i].meta.start_offset > HierarchicalChunk(Unwrap(doc))[1].meta.start_offset
          /\ emitted[i].meta.start_offset < HierarchicalChunk(Unwrap(doc))[1].meta.end_offset
          /\ emitted[i].meta.end_offset = HierarchicalChunk(Unwrap(doc))[2].meta.end_offset
          /\ NoPositions(Unwrap(doc))

\* C26: when Pass B splits an oversize chunk of more than one word, every piece
\* but the last is maximal (its text joined by one space with the first word of
\* the next piece counts, contextualized, more than max_tokens tokens), every
\* piece has the doc_name, headings and caption of the source chunk, and the
\* pieces hold the words of the source chunk in order.
C26_GreedyPacking ==
    (/\ pc = "split"
     /\ ~FitsBudget(chunker[1], ChunkTokens(chunker[1], passIn[1]))
     /\ Len(SplitWhitespace(passIn[1].text)) > 1) =>
        /\ \A j \in 1..(Len(passOut) - 1) :
              CountTokens(chunker[1].tokenizer[1],
                          Contextualize([text |-> passOut[j].text \o <<" ">>
                                                    \o SplitWhitespace(passOut[j + 1].text)[1],
                                         meta |-> passOut[j].meta]))
                  > chunker[1].max_tokens
        /\ \A j \in 1..Len(passOut) :
              /\ passOut[j].meta.doc_name = passIn[1].meta.doc_name
              /\ passOut[j].meta.headings = passIn[1].meta.headings
              /\ passOut[j].meta.caption = passIn[1].meta.caption
        /\ WordsOf(passOut) = SplitWhitespace(passIn[1].text)

\* C26 witness: a chunk of three words under a heading has been split into a
\* piece of two words and a piece of one.
C26_Witness ==
    /\ pc = "split" /\ Len(passOut) = 2
    /\ passIn[1].text = Txt_three /\ passIn[1].meta.headings = <<Heading_1>>
    /\ Len(SplitWhitespace(passOut[1].text)) = 2

RECURSIVE RunFirst(_, _)
\* the position in the pass input of the first chunk that went into out[k], when
\* every input chunk is one word
RunFirst(out, k) ==
    IF k = 1 THEN 1 ELSE RunFirst(out, k - 1) + Len(SplitWhitespace(out[k - 1].text))

\* C27: a chunk that Pass C merged from the adjacent peers c_1..c_n has the text
\* c_1.text " " ... " " c_n.text, start_offset of c_1, end_offset of c_n, and
\* doc_name, headings and caption of c_1; every output chunk's index is its
\* position in the output.
C27_MergedChunk ==
    (pc = "merged" /\ chunker[1].merge_peers) =>
        /\ RunFirst(passOut, Len(passOut) + 1) = Len(passIn) + 1
        /\ \A k \in 1..Len(passOut) :
              LET first == RunFirst(passOut, k)
                  last == RunFirst(passOut, k + 1) - 1
              IN  /\ first <= last /\ last <= Len(passIn)
                  /\ passOut[k].text = JoinTexts(SubSeq(passIn, first, last))
                  /\ passOut[k].meta.start_offset = passIn[first].meta.start_offset
                  /\ passOut[k].meta.end_offset = passIn[last].meta.end_offset
                  /\ passOut[k].meta.doc_name = passIn[first].meta.doc_name
                  /\ passOut[k].meta.headings = passIn[first].meta.headings
                  /\ passOut[k].meta.caption = passIn[first].meta.caption
                  /\ passOut[k].meta.index = k - 1

\* C27 witness: Pass C has turned three chunks into two, the second one merged
\* from the last two input chunks.
C27_Witness ==
    /\ pc = "merged" /\ Unwrap(chunker).merge_peers
    /\ Len(passIn) = 3 /\ Len(passOut) = 2
    /\ Len(SplitWhitespace(passOut[2].text)) = 2

\* C28: Pass B does not rewrite text: each piece it returns, split or not, is a
\* contiguous part of the source chunk's text, whitespace inside it (tabs,
\* newlines, runs of spaces) included.
C28_NoNormalization ==
    pc = "split" =>
        \A k \in 1..Len(passOut) :
            \E a \in 1..Len(passIn[1].text) : \E b \in a..Len(passIn[1].text) :
                SubSeq(passIn[1].text, a, b) = passOut[k].text

\* C29: with merge_peers = false and a document whose structural chunks all
\* count, contextualized, at most max_tokens tokens, the hybrid chunker yields
\* the structural chunker's chunks, equal in text, offsets, index, headings and
\* caption.
C29_FittingUnchanged ==
    (/\ IsHybrid /\ pc \in {"iterating", "done"}
     /\ ~chunker[1].merge_peers
     /\ \A k \in 1..Len(HierarchicalChunk(doc[1])) :
           WithinBudget(HierarchicalChunk(doc[1])[k])) =>
        emitted \o iter = HierarchicalChunk(doc[1])

\* C29 witness: a hybrid chunker with merging disabled has yielded, unchanged,
\* the two fitting structural chunks of a document, which merged would fit too.
C29_Witness ==
    /\ pc = "done" /\ IsHybrid /\ ~Unwrap(chunker).merge_peers
    /\ Len(emitted) = 2 /\ emitted = HierarchicalChunk(Unwrap(doc))
    /\ \A i \in 1..2 : WithinBudget(emitted[i])
    /\ WithinBudget(TrialMerge(emitted[1], emitted[2]))

\* C30: offset arithmetic never overflows: for documents whose positions and
\* text lengths fit in a usize, every cursor + len, end + 1 and
\* buf_start + len stays within usize, so chunk(doc) neither aborts nor emits
\* wrapped offsets, also when a node positioned near usize::MAX is followed by
\* an unpositioned node
C30_NoOverflow ==
    /\ pc # "panic"
    /\ pc \in {"iterating", "done"} =>
          /\ ~ChunkOverflows(Unwrap(chunker), Unwrap(doc))
          /\ \A i \in 1..Len(emitted \o iter) :
                (emitted \o iter)[i].meta.start_offset <= (emitted \o iter)[i].meta.end_offset

====
